---- MODULE Spec2Model ----
(***************************************************************************)
(* foodgram: the recipe write/read serializers (api/serializers.py) over   *)
(* the relational models (recipes/models.py, users/models.py).             *)
(*                                                                         *)
(* The store is the committed content of the tables.  A recipe mutation    *)
(* is a request that is validated, opens a transaction, writes, and        *)
(* commits or rolls back.  Favorite / Cart / Subscription additions are    *)
(* handled by concurrent workers in two steps (existence check, insert).   *)
(*                                                                         *)
(* Payload values are JSON integers.  The validators are called the way    *)
(* RecipeSerializer.validate calls them: on the request's initial data.    *)
(***************************************************************************)
EXTENDS Integers, Sequences, FiniteSets, TLC

VARIABLES
    Recipe,        \* committed Recipe rows, by pk; each with its tags and ingredient_in rows
    Favorite,      \* committed Favorite rows: <<user, recipe>> -> number of rows
    Cart,          \* committed Cart rows: <<user, recipe>> -> number of rows
    Subscription,  \* committed Subscription rows: <<user, author>> -> number of rows
    req,           \* the recipe request being handled, or NoReq
    txn,           \* the open transaction of the recipe request, or NoTxn
    resp,          \* the response to the recipe request, or NoResp
    seen,          \* the last response to a recipe retrieval, or NoResp
    workers        \* the relation-toggle requests in flight, one per worker

vars == <<Recipe, Favorite, Cart, Subscription, req, txn, resp, seen, workers>>

-----------------------------------------------------------------------------
(* Bounds of the model *)

MaxLen == 2        \* longest tag list / ingredient list of a payload
MaxAmount == 2     \* largest ingredient amount of a payload
MaxRecipes == 1    \* recipes the long-running specification creates

(* Program constants *)

MinCookingTime == 1
MaxCookingTime == 2880
MinAmount == 1

-----------------------------------------------------------------------------
(* Reference data and identities *)

Users == {1, 2}
Anonymous == [is_anonymous |-> TRUE]
Authenticated(u) == [is_anonymous |-> FALSE, pk |-> u]
Viewers == {Anonymous} \cup {Authenticated(u) : u \in Users}

TagPks == {1, 2}                 \* rows of the Tag table
IngredientPks == {1, 2}          \* rows of the Ingredient table
TagInputs == TagPks \cup {3}     \* 3 resolves to no Tag
IngredientInputs == IngredientPks \cup {3}   \* 3 resolves to no Ingredient
AmountInputs == 0 .. MaxAmount
CookingTimeInputs ==
    {MinCookingTime - 1, MinCookingTime, MaxCookingTime, MaxCookingTime + 1}

NoReq == [op |-> "none"]
NoTxn == [op |-> "none"]
NoResp == [op |-> "none"]

Range(s) == {s[i] : i \in 1 .. Len(s)}

SeqsUpTo(S, n) == UNION {[1 .. k -> S] : k \in 0 .. n}

Entries == [id : IngredientInputs, amount : AmountInputs]

Payloads ==
    [tags : SeqsUpTo(TagInputs, MaxLen),
     ingredients : SeqsUpTo(Entries, MaxLen),
     cooking_time : CookingTimeInputs]

-----------------------------------------------------------------------------
(* Outcomes of a validator: it returns, or it raises *)

Ok == [exc |-> "none", detail |-> ""]
ValidationError(detail) == [exc |-> "ValidationError", detail |-> detail]
Http404(model) == [exc |-> "Http404", detail |-> model]

\* get_object_or_404(Tag, pk=tag)
tag_exists(tag) == tag \in TagPks

\* validate_tags without the test for repeated tags
validate_tags_no_repeat_test(tags) ==
    IF tags = <<>> THEN ValidationError("tags: empty")
    ELSE IF \E i \in 1 .. Len(tags) : ~tag_exists(tags[i]) THEN Http404("Tag")
    ELSE Ok

\* RecipeSerializer.validate_tags
validate_tags(tags) ==
    IF tags = <<>> THEN ValidationError("tags: empty")
    ELSE IF Len(tags) # Cardinality(Range(tags))
         THEN ValidationError("tags: repeated")
    ELSE IF \E i \in 1 .. Len(tags) : ~tag_exists(tags[i]) THEN Http404("Tag")
    ELSE Ok

\* a duplicate test that compares the ingredient ids only
in_ingredients_list_by_id(ingredients, i) ==
    \E j \in 1 .. (i - 1) : ingredients[j].id = ingredients[i].id

\* the duplicate test of validate_ingredients: `ingredient in ingredients_list`
\* compares the whole entry with the entries before it
in_ingredients_list(ingredients, i) ==
    \E j \in 1 .. (i - 1) : ingredients[j] = ingredients[i]

\* the loop of RecipeSerializer.validate_ingredients from entry i on
RECURSIVE validate_ingredients_from(_, _)
validate_ingredients_from(ingredients, i) ==
    IF i > Len(ingredients) THEN Ok
    ELSE IF ingredients[i].id \notin IngredientPks THEN Http404("Ingredient")
    ELSE IF ingredients[i].amount < 0
         THEN ValidationError("ingredients: negative amount")
    ELSE IF in_ingredients_list(ingredients, i)
         THEN ValidationError("ingredients: repeated")
    ELSE validate_ingredients_from(ingredients, i + 1)

\* RecipeSerializer.validate_ingredients
validate_ingredients(ingredients) ==
    IF ingredients = <<>> THEN ValidationError("ingredients: empty")
    ELSE validate_ingredients_from(ingredients, 1)

\* RecipeSerializer.validate_cooking_time
validate_cooking_time(cooking_time) ==
    IF cooking_time < 1 THEN ValidationError("cooking_time: below 1") ELSE Ok

\* RecipeSerializer.validate: tags, then ingredients, then cooking_time;
\* the first exception propagates
validate(data) ==
    IF validate_tags(data.tags) # Ok THEN validate_tags(data.tags)
    ELSE IF validate_ingredients(data.ingredients) # Ok
         THEN validate_ingredients(data.ingredients)
    ELSE validate_cooking_time(data.cooking_time)

\* the cooking_time field without the MaxValueValidator
cooking_time_field_no_max(cooking_time) ==
    IF cooking_time < MinCookingTime
    THEN ValidationError("cooking_time: MinValueValidator")
    ELSE Ok

\* Recipe.cooking_time validators, run by the serializer field built from
\* the model field
cooking_time_field(cooking_time) ==
    IF cooking_time < MinCookingTime
    THEN ValidationError("cooking_time: MinValueValidator")
    ELSE IF cooking_time > MaxCookingTime
         THEN ValidationError("cooking_time: MaxValueValidator")
    ELSE Ok

\* the ingredients field without the MinValueValidator of the amount
ingredients_field_no_min(ingredients) ==
    IF \E i \in 1 .. Len(ingredients) : ingredients[i].id \notin IngredientPks
    THEN ValidationError("ingredients: id does not exist")
    ELSE Ok

\* AddIngredientSerializer: id is a primary key of Ingredient, amount runs
\* the validators of IngredientInRecipe.amount
ingredients_field(ingredients) ==
    IF \E i \in 1 .. Len(ingredients) : ingredients[i].id \notin IngredientPks
    THEN ValidationError("ingredients: id does not exist")
    ELSE IF \E i \in 1 .. Len(ingredients) : ingredients[i].amount < MinAmount
         THEN ValidationError("ingredients: MinValueValidator")
    ELSE Ok

\* the declared fields of RecipeSerializer, validated before validate() runs
fields_valid(data) ==
    IF ingredients_field(data.ingredients) # Ok
    THEN ingredients_field(data.ingredients)
    ELSE cooking_time_field(data.cooking_time)

\* serializer.is_valid: field validation, then RecipeSerializer.validate
is_valid(data) ==
    IF fields_valid(data) # Ok THEN fields_valid(data) ELSE validate(data)

-----------------------------------------------------------------------------
(* The relational store *)

RecipePks == 1 .. MaxRecipes
UserRecipePairs == Users \X RecipePks
UserPairs == Users \X Users

NoRows(keys) == [k \in keys |-> 0]

\* UniqueConstraint(fields=["recipe", "ingredient"]) on IngredientInRecipe:
\* the rows of one recipe name pairwise different ingredients
unique_ingredient_for_recipe(rows) ==
    \A i, j \in 1 .. Len(rows) :
        i # j => rows[i].ingredient # rows[j].ingredient

\* a table without its UniqueConstraint
no_unique_pair(table, key) == TRUE

\* UniqueConstraint(fields=["user", "recipe"]) on Favorite and on Cart,
\* UniqueConstraint(fields=["author", "user"]) on Subscription:
\* the insert of a row with this key is admitted
unique_pair(table, key) == table[key] = 0

\* the store without the atomic block: every write is committed as it is made
autocommit(committed, working) == working

\* the state of the store that other connections read, and that remains
\* after an exception, while a transaction.atomic block has done `working`
\* on top of `committed`
transaction_atomic(committed, working) == committed

\* Recipe.objects.create(author=user, **validated_data)
Recipe_objects_create(store, user, data) ==
    Append(store, [author |-> user,
                   cooking_time |-> data.cooking_time,
                   tags |-> {},
                   ingredient_in |-> <<>>])

\* recipe.tags.set(tags)
tags_set(store, pk, tags) ==
    [store EXCEPT ![pk].tags = Range(tags)]

\* update without the delete of the old rows
delete_nothing(store, pk) == store

\* IngredientInRecipe.objects.filter(recipe=instance).delete()
delete_ingredient_in(store, pk) ==
    [store EXCEPT ![pk].ingredient_in = <<>>]

\* the rows RecipeSerializer.get_ingredients hands to bulk_create
get_ingredients(ingredients) ==
    [i \in 1 .. Len(ingredients) |->
        [ingredient |-> ingredients[i].id, amount |-> ingredients[i].amount]]

\* bulk_create: all rows are inserted, or the constraint rejects the insert
bulk_create_ok(store, pk, rows) ==
    unique_ingredient_for_recipe(store[pk].ingredient_in \o rows)

bulk_create(store, pk, rows) ==
    [store EXCEPT ![pk].ingredient_in = @ \o rows]

\* ModelSerializer.update: the remaining validated fields are assigned and saved
super_update(store, pk, data) ==
    [store EXCEPT ![pk].cooking_time = data.cooking_time]

-----------------------------------------------------------------------------
(* The read projection *)

\* the reverse accessors of User that the models declare (related_name)
UserRelatedNames ==
    {"recipe_author", "cart_user", "favorite_user", "subscriber", "subscribing"}

AttributeError == [exc |-> "AttributeError"]

\* getattr(user, name).filter(recipe=object).exists()
related_exists(user, name, pk) ==
    IF name \notin UserRelatedNames THEN AttributeError
    ELSE [exc |-> "none",
          value |-> CASE name = "favorite_user" -> Favorite[<<user.pk, pk>>] > 0
                      [] name = "cart_user" -> Cart[<<user.pk, pk>>] > 0
                      [] OTHER -> FALSE]

\* GetRecipeSerializer.get_is_favorited
get_is_favorited(user, pk) ==
    IF user.is_anonymous THEN [exc |-> "none", value |-> FALSE]
    ELSE related_exists(user, "favorite", pk)

\* GetRecipeSerializer.get_is_in_shopping_cart
get_is_in_shopping_cart(user, pk) ==
    IF user.is_anonymous THEN [exc |-> "none", value |-> FALSE]
    ELSE related_exists(user, "shoppingcart", pk)

\* RecipeIngredientSerializer over recipe.ingredient_in
RecipeIngredientSerializer(rows) ==
    [i \in 1 .. Len(rows) |-> [id |-> rows[i].ingredient, amount |-> rows[i].amount]]

\* GetRecipeSerializer(instance).data, for the request's user
to_representation(user, store, pk) ==
    IF get_is_favorited(user, pk).exc # "none" THEN AttributeError
    ELSE IF get_is_in_shopping_cart(user, pk).exc # "none" THEN AttributeError
    ELSE [exc |-> "none",
          id |-> pk,
          tags |-> store[pk].tags,
          author |-> store[pk].author,
          ingredients |-> RecipeIngredientSerializer(store[pk].ingredient_in),
          is_favorited |-> get_is_favorited(user, pk).value,
          is_in_shopping_cart |-> get_is_in_shopping_cart(user, pk).value,
          cooking_time |-> store[pk].cooking_time]

-----------------------------------------------------------------------------
(* Recipe requests: RecipeSerializer.create / update behind is_valid *)

CreateRequests ==
    {[op |-> "create", user |-> u, pk |-> 0, data |-> d] :
        u \in Users, d \in Payloads}

\* an update is addressed to an existing recipe by its author
UpdateRequests(store, data) ==
    {[op |-> "update", user |-> store[pk].author, pk |-> pk, data |-> d] :
        pk \in 1 .. Len(store), d \in data}

Raised(r, exc) ==
    [op |-> r.op, status |-> exc.exc, detail |-> exc.detail, pk |-> r.pk,
     data |-> NoResp]

Saved(r, pk, store) ==
    [op |-> r.op, status |-> "saved", detail |-> "", pk |-> pk,
     data |-> to_representation(Authenticated(r.user), store, pk)]

\* a request arrives
recipe_receive(r) ==
    /\ req = NoReq /\ txn = NoTxn /\ resp = NoResp
    /\ r.op = "create" => Len(Recipe) < MaxRecipes
    /\ req' = r
    /\ UNCHANGED <<Recipe, Favorite, Cart, Subscription, txn, resp, seen, workers>>

\* create, up to get_ingredients: the Recipe row and its tags
create_working(store, r) ==
    tags_set(Recipe_objects_create(store, r.user, r.data),
             Len(store) + 1, r.data.tags)

\* update, up to get_ingredients: the old rows deleted, the tags replaced
update_working(store, r) ==
    tags_set(delete_ingredient_in(store, r.pk), r.pk, r.data.tags)

\* is_valid, then the writes of create / update before get_ingredients
recipe_begin ==
    /\ req # NoReq /\ txn = NoTxn /\ resp = NoResp
    /\ IF is_valid(req.data) # Ok
       THEN /\ resp' = Raised(req, is_valid(req.data))
            /\ UNCHANGED <<Recipe, txn>>
       ELSE LET working == IF req.op = "create"
                           THEN create_working(Recipe, req)
                           ELSE update_working(Recipe, req)
                pk == IF req.op = "create" THEN Len(Recipe) + 1 ELSE req.pk
            IN /\ txn' = [op |-> req.op, pk |-> pk, working |-> working]
               /\ Recipe' = transaction_atomic(Recipe, working)
               /\ UNCHANGED resp
    /\ UNCHANGED <<Favorite, Cart, Subscription, req, seen, workers>>

\* get_ingredients, the rest of the atomic block, and the response
recipe_finish ==
    /\ txn # NoTxn
    /\ LET rows == get_ingredients(req.data.ingredients)
       IN IF bulk_create_ok(txn.working, txn.pk, rows)
          THEN LET inserted == bulk_create(txn.working, txn.pk, rows)
                   done == IF txn.op = "update"
                           THEN super_update(inserted, txn.pk, req.data)
                           ELSE inserted
               IN /\ Recipe' = done
                  /\ resp' = Saved(req, txn.pk, done)
          ELSE /\ Recipe' = transaction_atomic(Recipe, txn.working)
               /\ resp' = Raised([req EXCEPT !.pk = txn.pk],
                                 [exc |-> "IntegrityError",
                                  detail |-> "unique ingredient for recipe"])
    /\ txn' = NoTxn
    /\ UNCHANGED <<Favorite, Cart, Subscription, req, seen, workers>>

\* the response is delivered
recipe_close ==
    /\ resp # NoResp
    /\ req' = NoReq /\ resp' = NoResp
    /\ UNCHANGED <<Recipe, Favorite, Cart, Subscription, txn, seen, workers>>

\* GET of one recipe by a viewer, at any time
retrieve(viewer, pk) ==
    /\ pk \in 1 .. Len(Recipe)
    /\ seen' = [op |-> "retrieve", viewer |-> viewer, pk |-> pk,
                data |-> to_representation(viewer, Recipe, pk)]
    /\ UNCHANGED <<Recipe, Favorite, Cart, Subscription, req, txn, resp, workers>>

-----------------------------------------------------------------------------
(* Relation toggles: FavoriteSerializer, CartSerializer, FollowSerializer *)

Workers == {1, 2}

Idle == [pc |-> "idle", serializer |-> "", user |-> 0, target |-> 0, status |-> ""]

\* CartSerializer left with the Meta.model it inherits
Meta_model_inherited(serializer) == "Favorite"

\* class Meta: model of FavoriteSerializer and of CartSerializer
Meta_model(serializer) ==
    IF serializer = "CartSerializer" THEN "Cart" ELSE "Favorite"

\* self.Meta.model.objects
objects(model) == IF model = "Cart" THEN Cart ELSE Favorite

\* FavoriteSerializer.validate, inherited by CartSerializer
FavoriteSerializer_validate(serializer, user, recipe) ==
    IF objects(Meta_model(serializer))[<<user, recipe>>] > 0
    THEN ValidationError("error: already added")
    ELSE Ok

\* FollowSerializer.validate without the test user == author
FollowSerializer_validate_no_self_test(user, author) ==
    IF Subscription[<<user, author>>] > 0
    THEN ValidationError("already subscribed")
    ELSE Ok

\* FollowSerializer.validate
FollowSerializer_validate(user, author) ==
    IF Subscription[<<user, author>>] > 0
    THEN ValidationError("already subscribed")
    ELSE IF user = author THEN ValidationError("self subscription")
    ELSE Ok

ToggleRequests(store) ==
    {[pc |-> "received", serializer |-> s, user |-> u, target |-> t, status |-> ""] :
        s \in {"FavoriteSerializer", "CartSerializer"},
        u \in Users, t \in 1 .. Len(store)}
    \cup
    {[pc |-> "received", serializer |-> "FollowSerializer", user |-> u,
      target |-> t, status |-> ""] : u \in Users, t \in Users}

\* a toggle request arrives at a worker
toggle_receive(w, r) ==
    /\ workers[w].pc = "idle"
    /\ workers' = [workers EXCEPT ![w] = r]
    /\ UNCHANGED <<Recipe, Favorite, Cart, Subscription, req, txn, resp, seen>>

\* serializer.is_valid: the existence check of the request's serializer
toggle_validate(w) ==
    /\ workers[w].pc = "received"
    /\ LET r == workers[w]
           v == IF r.serializer = "FollowSerializer"
                THEN FollowSerializer_validate(r.user, r.target)
                ELSE FavoriteSerializer_validate(r.serializer, r.user, r.target)
       IN workers' = [workers EXCEPT ![w] =
                        IF v = Ok THEN [r EXCEPT !.pc = "validated"]
                        ELSE [r EXCEPT !.pc = "done", !.status = v.exc]]
    /\ UNCHANGED <<Recipe, Favorite, Cart, Subscription, req, txn, resp, seen>>

\* the insert of the relation row, arbitrated by the table's UniqueConstraint
toggle_save(w) ==
    /\ workers[w].pc = "validated"
    /\ LET r == workers[w]
           key == <<r.user, r.target>>
           table == IF r.serializer = "FollowSerializer" THEN Subscription
                    ELSE objects(Meta_model(r.serializer))
           ok == unique_pair(table, key)
           after == IF ok THEN [table EXCEPT ![key] = @ + 1] ELSE table
       IN /\ workers' = [workers EXCEPT ![w] =
                [r EXCEPT !.pc = "done",
                          !.status = IF ok THEN "created" ELSE "IntegrityError"]]
          /\ Subscription' = IF r.serializer = "FollowSerializer"
                             THEN after ELSE Subscription
          /\ Favorite' = IF r.serializer = "FavoriteSerializer"
                         THEN after ELSE Favorite
          /\ Cart' = IF r.serializer = "CartSerializer" THEN after ELSE Cart
    /\ UNCHANGED <<Recipe, req, txn, resp, seen>>

\* the response of a toggle request is delivered
toggle_close(w) ==
    /\ workers[w].pc = "done"
    /\ workers' = [workers EXCEPT ![w] = Idle]
    /\ UNCHANGED <<Recipe, Favorite, Cart, Subscription, req, txn, resp, seen>>

-----------------------------------------------------------------------------
(* Specifications *)

Entry(i, a) == [id |-> i, amount |-> a]

\* a recipe as a valid creation leaves it
SeedStore ==
    <<[author |-> 1, cooking_time |-> MinCookingTime, tags |-> {1},
       ingredient_in |-> <<[ingredient |-> 1, amount |-> MinAmount]>>]>>

EmptyTables ==
    /\ Favorite = NoRows(UserRecipePairs)
    /\ Cart = NoRows(UserRecipePairs)
    /\ Subscription = NoRows(UserPairs)

\* the payloads of the long-running specification
LifecyclePayloads ==
    [tags : {<<1>>, <<2, 1>>},
     ingredients : {<<>>,
                    <<Entry(1, 1)>>,
                    <<Entry(2, MaxAmount)>>,
                    <<Entry(2, 1), Entry(1, MaxAmount)>>,
                    <<Entry(1, 1), Entry(1, MaxAmount)>>},
     cooking_time : {MaxCookingTime}]

LifecycleRequests ==
    {[op |-> "create", user |-> u, pk |-> 0, data |-> d] :
        u \in Users, d \in LifecyclePayloads}
    \cup UpdateRequests(Recipe, LifecyclePayloads)

\* Spec: recipes are created, updated and read, one mutation at a time
Init ==
    /\ Recipe = <<>>
    /\ EmptyTables
    /\ req = NoReq /\ txn = NoTxn /\ resp = NoResp /\ seen = NoResp
    /\ workers = [w \in Workers |-> Idle]

Next ==
    \/ \E r \in LifecycleRequests : recipe_receive(r)
    \/ recipe_begin
    \/ recipe_finish
    \/ recipe_close
    \/ \E viewer \in Viewers, pk \in RecipePks : retrieve(viewer, pk)

Spec == Init /\ [][Next]_vars

\* SpecWrite: one recipe request, drawn from every payload, is handled
InitWrite ==
    /\ \/ Recipe = <<>> /\ req \in CreateRequests
       \/ Recipe = SeedStore /\ req \in UpdateRequests(SeedStore, Payloads)
    /\ EmptyTables
    /\ txn = NoTxn /\ resp = NoResp /\ seen = NoResp
    /\ workers = [w \in Workers |-> Idle]

NextWrite ==
    \/ recipe_begin
    \/ recipe_finish
    \/ recipe_close

SpecWrite == InitWrite /\ [][NextWrite]_vars

\* the ingredient lists of SpecIngredients: amounts from -1 up
SignedEntries == [id : IngredientInputs, amount : (-1) .. MaxAmount]

IngredientPayloads ==
    [tags : {<<1>>, <<2, 1>>},
     ingredients : SeqsUpTo(SignedEntries, MaxLen),
     cooking_time : {MinCookingTime, MaxCookingTime}]

\* SpecIngredients: one recipe request with acceptable tags and cooking
\* time, drawn from every ingredient list, is handled
InitIngredients ==
    /\ \/ /\ Recipe = <<>>
          /\ req \in {[op |-> "create", user |-> u, pk |-> 0, data |-> d] :
                        u \in Users, d \in IngredientPayloads}
       \/ /\ Recipe = SeedStore
          /\ req \in UpdateRequests(SeedStore, IngredientPayloads)
    /\ EmptyTables
    /\ txn = NoTxn /\ resp = NoResp /\ seen = NoResp
    /\ workers = [w \in Workers |-> Idle]

NextIngredients ==
    \/ recipe_begin
    \/ recipe_finish
    \/ recipe_close

SpecIngredients == InitIngredients /\ [][NextIngredients]_vars

\* SpecRelations: workers handle toggle requests over a seeded recipe,
\* viewers read it
InitRelations ==
    /\ Recipe = SeedStore
    /\ EmptyTables
    /\ req = NoReq /\ txn = NoTxn /\ resp = NoResp /\ seen = NoResp
    /\ workers = [w \in Workers |-> Idle]

NextRelations ==
    \/ \E w \in Workers, r \in ToggleRequests(Recipe) : toggle_receive(w, r)
    \/ \E w \in Workers : toggle_validate(w)
    \/ \E w \in Workers : toggle_save(w)
    \/ \E w \in Workers : toggle_close(w)
    \/ \E viewer \in Viewers, pk \in RecipePks : retrieve(viewer, pk)

SpecRelations == InitRelations /\ [][NextRelations]_vars

\* SpecRace: every worker handles one toggle request, over empty tables
InitRace ==
    /\ Recipe = SeedStore
    /\ EmptyTables
    /\ req = NoReq /\ txn = NoTxn /\ resp = NoResp /\ seen = NoResp
    /\ workers \in [Workers -> ToggleRequests(SeedStore)]

NextRace ==
    \/ \E w \in Workers : toggle_validate(w)
    \/ \E w \in Workers : toggle_save(w)

SpecRace == InitRace /\ [][NextRace]_vars

-----------------------------------------------------------------------------
(* Properties *)

\* the (ingredient id, amount) pairs of a payload's entries / of stored rows
SubmittedPairs(ingredients) ==
    {<<ingredients[i].id, ingredients[i].amount>> : i \in 1 .. Len(ingredients)}

StoredPairs(rows) ==
    {<<rows[i].ingredient, rows[i].amount>> : i \in 1 .. Len(rows)}

\* the store a request of SpecWrite started from
StoreBefore == IF req.op = "update" THEN SeedStore ELSE <<>>

Handled == req # NoReq /\ resp # NoResp

\* C1: every creation payload that passes validation (non-empty tags, N >= 1
\* ingredient entries) leaves exactly N IngredientInRecipe rows for the new
\* recipe, their (ingredient, amount) pairs being the submitted pairs.
C1_CreatePersistsSubmittedRows ==
    (Handled /\ req.op = "create" /\ is_valid(req.data) = Ok) =>
        /\ resp.pk \in 1 .. Len(Recipe)
        /\ Len(Recipe[resp.pk].ingredient_in) = Len(req.data.ingredients)
        /\ StoredPairs(Recipe[resp.pk].ingredient_in)
             = SubmittedPairs(req.data.ingredients)

\* C2: after a successful update the recipe's rows are exactly the submitted
\* entries and its tags exactly the submitted tags, whatever the recipe held
\* before.
C2_UpdateReplaces ==
    (Handled /\ req.op = "update" /\ resp.status = "saved") =>
        /\ Len(Recipe[req.pk].ingredient_in) = Len(req.data.ingredients)
        /\ StoredPairs(Recipe[req.pk].ingredient_in)
             = SubmittedPairs(req.data.ingredients)
        /\ Recipe[req.pk].tags = Range(req.data.tags)

\* an update saved one row and one tag over a version that an anonymous
\* viewer had read with two rows and two tags
C2_Witness ==
    /\ Handled /\ req.op = "update" /\ resp.status = "saved"
    /\ Len(req.data.ingredients) = 1 /\ Len(req.data.tags) = 1
    /\ seen # NoResp /\ seen.pk = req.pk /\ seen.data.exc = "none"
    /\ Len(seen.data.ingredients) = 2 /\ Cardinality(seen.data.tags) = 2

\* C3: create and update are all-or-nothing: no step that leaves the
\* transaction open, and no step that ends in the store rejecting the bulk
\* insert, changes the committed store; a reader never gets a recipe without
\* tags or without ingredient rows.
C3_AllOrNothing ==
    [][/\ txn' # NoTxn => Recipe' = Recipe
       /\ (resp' # NoResp /\ resp'.status = "IntegrityError") => Recipe' = Recipe
       /\ (seen' # NoResp /\ seen'.data.exc = "none") =>
             (seen'.data.tags # {} /\ seen'.data.ingredients # <<>>)]_vars

\* a failed update: the bulk insert was rejected and the recipe still has
\* its previous rows and tags
C3_Witness ==
    /\ Handled /\ req.op = "update" /\ resp.status = "IntegrityError"
    /\ Recipe[req.pk].ingredient_in # <<>> /\ Recipe[req.pk].tags # {}
    /\ StoredPairs(Recipe[req.pk].ingredient_in)
         # SubmittedPairs(req.data.ingredients)

\* both workers have finished a Favorite request for the same pair
SameFavorite ==
    /\ \A w \in Workers : /\ workers[w].pc = "done"
                          /\ workers[w].serializer = "FavoriteSerializer"
    /\ workers[1].user = workers[2].user
    /\ workers[1].target = workers[2].target

\* C4: of two concurrent Favorite requests for the same pair, under every
\* interleaving of their checks and inserts, exactly one succeeds, the other
\* fails with a duplicate error, and one Favorite row exists for the pair.
C4_OneFavoriteWins ==
    SameFavorite =>
        /\ Cardinality({w \in Workers : workers[w].status = "created"}) = 1
        /\ \A w \in Workers :
              workers[w].status \in {"created", "ValidationError", "IntegrityError"}
        /\ Favorite[<<workers[1].user, workers[1].target>>] = 1

\* both requests passed the existence check before either inserted
C4_Witness ==
    /\ SameFavorite
    /\ \E w \in Workers : workers[w].status = "IntegrityError"

\* worker w takes the step of its existence check
Validates(w) == workers[w].pc = "received" /\ workers'[w].pc # "received"

\* C5: a Favorite (Cart) add for a pair already in that relation fails with
\* a validation error and changes nothing; a pair is at most once in Favorite
\* and at most once in Cart; each relation is checked by its own rows only.
C5_DuplicateAddFails ==
    /\ [](\A k \in UserRecipePairs : Favorite[k] <= 1 /\ Cart[k] <= 1)
    /\ [][\A w \in Workers :
            (Validates(w) /\ workers[w].serializer # "FollowSerializer") =>
               LET k == <<workers[w].user, workers[w].target>>
                   own == IF workers[w].serializer = "FavoriteSerializer"
                          THEN Favorite ELSE Cart
               IN IF own[k] > 0
                  THEN /\ workers'[w].status = "ValidationError"
                       /\ Favorite' = Favorite /\ Cart' = Cart
                  ELSE workers'[w].pc = "validated"]_vars

\* a second Favorite add was refused while the pair is in Cart too
C5_Witness ==
    \E w \in Workers :
        /\ workers[w].pc = "done" /\ workers[w].status = "ValidationError"
        /\ workers[w].serializer = "FavoriteSerializer"
        /\ Favorite[<<workers[w].user, workers[w].target>>] = 1
        /\ Cart[<<workers[w].user, workers[w].target>>] = 1

\* C6: a follow request of a user for themselves fails with a validation
\* error and no Subscription row has user = author; a follow request for a
\* pair that exists fails too.
C6_NoSelfFollow ==
    /\ [](/\ \A u \in Users : Subscription[<<u, u>>] = 0
          /\ \A w \in Workers :
                (/\ workers[w].pc = "done"
                 /\ workers[w].serializer = "FollowSerializer"
                 /\ workers[w].user = workers[w].target)
                => workers[w].status = "ValidationError")
    /\ [][\A w \in Workers :
            (/\ Validates(w)
             /\ workers[w].serializer = "FollowSerializer"
             /\ Subscription[<<workers[w].user, workers[w].target>>] > 0)
            => (/\ workers'[w].status = "ValidationError"
                /\ Subscription' = Subscription)]_vars

\* a self-follow was refused while the user follows somebody else
C6_Witness ==
    \E w \in Workers :
        /\ workers[w].pc = "done" /\ workers[w].status = "ValidationError"
        /\ workers[w].serializer = "FollowSerializer"
        /\ workers[w].user = workers[w].target
        /\ \E a \in Users : Subscription[<<workers[w].user, a>>] = 1

\* C7: in the read projection, for every viewer, is_favorited is true iff a
\* Favorite row links the viewer to the recipe and is_in_shopping_cart iff a
\* Cart row does; both are false for an unauthenticated viewer.
C7_FlagsFollowRelations ==
    [][\A viewer \in Viewers, pk \in RecipePks :
          retrieve(viewer, pk) =>
             /\ seen'.data.exc = "none"
             /\ seen'.data.is_favorited
                  = (~viewer.is_anonymous /\ Favorite[<<viewer.pk, pk>>] > 0)
             /\ seen'.data.is_in_shopping_cart
                  = (~viewer.is_anonymous /\ Cart[<<viewer.pk, pk>>] > 0)]_vars

CookingTimeInRange(t) == MinCookingTime <= t /\ t <= MaxCookingTime

\* the parts of a payload other than cooking_time are acceptable
RestAcceptable(data) ==
    is_valid([data EXCEPT !.cooking_time = MinCookingTime]) = Ok
    /\ unique_ingredient_for_recipe(get_ingredients(data.ingredients))

C9_RoundTrip ==
    (Handled /\ req.op = "create" /\ resp.status = "saved") =>
        /\ resp.data.exc = "none"
        /\ resp.data.tags = Range(req.data.tags)
        /\ {<<resp.data.ingredients[i].id, resp.data.ingredients[i].amount>> :
               i \in 1 .. Len(resp.data.ingredients)}
             = SubmittedPairs(req.data.ingredients)
        /\ resp.data.cooking_time = req.data.cooking_time

TagsEmpty(tags) == tags = <<>>
TagsRepeat(tags) == \E i, j \in 1 .. Len(tags) : i # j /\ tags[i] = tags[j]
TagsUnresolved(tags) == \E i \in 1 .. Len(tags) : tags[i] \notin TagPks

BelowMinAmount(ingredients) ==
    \E i \in 1 .. Len(ingredients) : ingredients[i].amount < 1

C11_AmountsAtLeastOne ==
    /\ \A pk \in 1 .. Len(Recipe) :
           \A i \in 1 .. Len(Recipe[pk].ingredient_in) :
               /\ Recipe[pk].ingredient_in[i].amount \in Int
               /\ Recipe[pk].ingredient_in[i].amount >= 1
    /\ (Handled /\ BelowMinAmount(req.data.ingredients)) =>
           /\ resp.status = "ValidationError"
           /\ Recipe = StoreBefore

\* an entry with amount 0 over an existing ingredient is refused and nothing
\* is stored
C11_Witness ==
    /\ Handled
    /\ \E i \in 1 .. Len(req.data.ingredients) :
           req.data.ingredients[i] = Entry(1, 0)
    /\ \A i \in 1 .. Len(req.data.ingredients) :
           req.data.ingredients[i].id \in IngredientPks
    /\ validate_ingredients(req.data.ingredients) = Ok
    /\ resp.status = "ValidationError"
    /\ resp.detail = "ingredients: MinValueValidator"
    /\ Recipe = StoreBefore

\* some entry equals an earlier entry in both ingredient id and amount
WholeEntryRepeats(ingredients) ==
    \E i, j \in 1 .. Len(ingredients) :
        /\ i < j
        /\ ingredients[i].id = ingredients[j].id
        /\ ingredients[i].amount = ingredients[j].amount

\* some ingredient id occurs in two entries
IdRepeats(ingredients) ==
    \E i, j \in 1 .. Len(ingredients) :
        i < j /\ ingredients[i].id = ingredients[j].id

\* the payload passes the tests of validate_ingredients other than the
\* duplicate test: it is not empty, its ids resolve, no amount is negative
OtherTestsPass(ingredients) ==
    /\ ingredients # <<>>
    /\ \A i \in 1 .. Len(ingredients) :
           ingredients[i].id \in IngredientPks /\ ingredients[i].amount >= 0

====
